---------------------------- MODULE Spec2Model ----------------------------
(***************************************************************************)
(* ProKeys: the Electron main process (src/main.js) that owns the single   *)
(* worker-process slot and the persisted configuration, the tray menu it   *)
(* renders, and the renderer process (src/unnamed/part_003, renderer.js)   *)
(* reached through the channels of the preload bridge (the JavaScript at   *)
(* the end of src/styles.css, lines 367-392).                              *)
(*                                                                         *)
(* The main process is one event loop: startProKeys and stopProKeys hold   *)
(* no await and their callers resume in a microtask, before any other      *)
(* event is taken, so every IPC handler, tray click and child-process      *)
(* event handler runs to completion and is one action here.  The renderer  *)
(* is a second event loop; the two exchange messages over FIFO channels.   *)
(*                                                                         *)
(* Delays are JavaScript doubles in the code.  They are modelled as exact  *)
(* rationals <<numerator, denominator>> in lowest terms: every comparison  *)
(* the properties make is between values that differ by more than 1e-6     *)
(* relative, far above double rounding, so the exact order and equality    *)
(* are those of the doubles.                                               *)
(***************************************************************************)
EXTENDS Integers, Sequences, FiniteSets, TLC

VARIABLES
    pythonProcess,  \* main.js:22  the slot: 0 is null, p > 0 the p-th spawned child
    procs,          \* the children whose 'close' is still to come, in spawn order: [st, sig]
    store,          \* electron-store key 'config': <<>> when absent, else <<Configuration>>
    tray,           \* what the tray menu last built by updateTrayMenu shows
    toMain,         \* ipcRenderer.invoke requests on their way to the main process
    toWin,          \* replies and webContents.send messages on their way to the window
    isRunning,      \* renderer.js:3  the window's running flag
    config,         \* renderer.js:4  the window's copy of the Configuration
    last,           \* what the handler that just ran did: its call's result, or the event
    lastStarted,    \* the child of the latest successful start, 0 once stop() was called
    swpm,           \* speed-model specification: the wpm under evaluation
    sout,           \* speed-model specification: the delays computed so far
    senv,           \* start specification: the environment of the start() call
    seen            \* run specification: the Running -> Idle transitions and the
                    \* 'prokeys-stopped' notifications counted so far, and
                    \* whether the grace timer of the latest start is pending

vars == <<pythonProcess, procs, store, tray, toMain, toWin, isRunning, config,
          last, lastStarted, swpm, sout, senv, seen>>

---------------------------------------------------------------------------
(* Bounds of the model.                                                    *)

\* spawned children whose 'close' event has not been handled yet
MaxProcs == 2
\* messages in flight towards the window
MaxToWin == 1
\* invoke requests in flight towards the main process
MaxToMain == 1

(* Program constants.                                                      *)

\* the speed range of the slider
MinWpm == 9
MaxWpm == 999
\* the timeouts of the probes, in seconds
VersionTimeout == 5
DepsTimeout == 10

---------------------------------------------------------------------------
(* Rational arithmetic for the delays.                                     *)

RECURSIVE GCD(_, _)
GCD(a, b) == IF b = 0 THEN a ELSE GCD(b, a % b)

Rat(n, d) == LET g == GCD(n, d) IN <<n \div g, d \div g>>
RatMul(x, y) == Rat(x[1] * y[1], x[2] * y[2])
RatAdd(x, y) == Rat(x[1] * y[2] + y[1] * x[2], x[2] * y[2])
RatLt(x, y) == x[1] * y[2] < y[1] * x[2]
RatPos(x) == x[1] > 0 /\ x[2] > 0

---------------------------------------------------------------------------
(* Speed Model: the two copies of wpmToDelay.                              *)

\* main.js:185-198
wpmToDelay(wpm) ==
    LET baseDelay == Rat(60, wpm * 5) IN
    IF wpm < 60 THEN RatMul(baseDelay, Rat(12, 10))
    ELSE IF wpm < 120 THEN RatMul(baseDelay, Rat(13, 10))
    ELSE IF wpm < 200 THEN RatMul(baseDelay, Rat(14, 10))
    ELSE RatMul(baseDelay, Rat(15, 10))

\* renderer.js:137-154
rendererWpmToDelay(wpm) ==
    LET baseDelay == Rat(60, wpm * 5)
        overhead == IF wpm < 60 THEN Rat(30, 100)
                    ELSE IF wpm < 120 THEN Rat(25, 100)
                    ELSE IF wpm < 200 THEN Rat(20, 100)
                    ELSE Rat(15, 100)
    IN RatMul(baseDelay, RatAdd(Rat(1, 1), overhead))

---------------------------------------------------------------------------
(* Config Store.                                                           *)

\* main.js:25-29
defaultConfig ==
    [typing_speed_wpm |-> 120, delay |-> Rat(1, 100), trigger_key |-> "cmd+shift+v"]

\* store.get('config', defaultConfig), main.js:72, 167, 355, 453
getConfig(s) == IF s = <<>> THEN defaultConfig ELSE s[1]

\* the value JavaScript reads from a property an object does not have
undefined == "undefined"
\* the property read cfg.f, e.g. config.typing_speed_wpm at main.js:73
get(cfg, f) == IF f \in DOMAIN cfg THEN cfg[f] ELSE undefined

\* the speed field of each entry of speedPresets, main.js:75-81
speedPresets == {100, 250, 500, 1000, 2000}

\* the tray preset the model clicks: the first one beyond the slider's range
trayClicks == {p \in speedPresets : p = 1000}

\* the values the window's slider and preset buttons hand to the handlers of
\* renderer.js:50-71: the fast end of the slider
windowSpeeds == {MaxWpm}

\* a tray menu whose speed label is not read from the store
updateTrayMenu_fixedSpeed(s, slot) ==
    [status |-> slot # 0, speed |-> defaultConfig.typing_speed_wpm]

\* updateTrayMenu, main.js:69-136: the status label and the speed label
updateTrayMenu(s, slot) ==
    [status |-> slot # 0, speed |-> get(getConfig(s), "typing_speed_wpm")]

---------------------------------------------------------------------------
(* Runtime Locator and Environment Validator, as startProKeys runs them.   *)
(* An environment is everything outside the process one start() call       *)
(* reads: the accessibility permission, the packaging mode, which files    *)
(* exist, how the probes of the bundled and of the system interpreter end  *)
(* and how spawn ends.                                                     *)

Bases == {"__dirname", "resourcesPath", "resourcesPath/.."}
\* the interpreter found on PATH, main.js:220
python3 == <<"PATH", "python3">>
Files == {"venv_portable/bin/python", "prokeys.py"}
\* how the two probes of an interpreter end: version, the version probe exits
\* with status 0 in time; deps, the dependency probe prints the marker ("ok"),
\* exits with status 0 without it ("nomarker") or does neither in time
\* ("fail").  A probe that stalls would not end by itself.
Stalled ==
    {[version |-> FALSE, deps |-> "ok", stalls |-> "version"],
     [version |-> TRUE, deps |-> "fail", stalls |-> "deps"]}
ProbeOutcomes == [version : BOOLEAN, deps : {"ok", "nomarker", "fail"}] \cup Stalled

StartEnvs ==
    [perm : BOOLEAN, isDev : BOOLEAN, fs : SUBSET (Bases \X Files),
     probe : ProbeOutcomes, sysProbe : ProbeOutcomes,
     spawn : {"ok", "error", "throw"}]

\* a search that tries the parent of the resources directory first
basePaths_parentFirst(isDev) ==
    IF isDev THEN <<"__dirname">> ELSE <<"resourcesPath/..", "resourcesPath">>

\* main.js:233-244
basePaths(isDev) ==
    IF isDev THEN <<"__dirname">> ELSE <<"resourcesPath", "resourcesPath/..">>

\* a locator that knows no system fallback
locate_bundledOnly(isDev, fs) ==
    LET bp == basePaths(isDev)
        both == {i \in DOMAIN bp : <<bp[i], "venv_portable/bin/python">> \in fs
                                   /\ <<bp[i], "prokeys.py">> \in fs}
    IN IF both # {}
       THEN LET i == CHOOSE k \in both : \A j \in both : k <= j
            IN [pythonExecutable |-> <<bp[i], "venv_portable/bin/python">>,
                scriptPath |-> <<bp[i], "prokeys.py">>]
       ELSE [pythonExecutable |-> python3, scriptPath |-> <<>>]

\* main.js:248-292: the (pythonExecutable, scriptPath) pair, scriptPath <<>>
\* (null) when no script was found
locate(isDev, fs) ==
    LET bp == basePaths(isDev)
        both == {i \in DOMAIN bp : <<bp[i], "venv_portable/bin/python">> \in fs
                                   /\ <<bp[i], "prokeys.py">> \in fs}
        fallbackBase == IF isDev THEN "__dirname" ELSE "resourcesPath"
    IN IF both # {}
       THEN LET i == CHOOSE k \in both : \A j \in both : k <= j
            IN [pythonExecutable |-> <<bp[i], "venv_portable/bin/python">>,
                scriptPath |-> <<bp[i], "prokeys.py">>]
       ELSE IF <<fallbackBase, "prokeys.py">> \in fs
       THEN [pythonExecutable |-> python3,
             scriptPath |-> <<fallbackBase, "prokeys.py">>]
       ELSE [pythonExecutable |-> python3, scriptPath |-> <<>>]

\* how the process of a probe command ("version", "deps") ends by itself
ends(cmd, pr) ==
    IF get(pr, "stalls") = cmd THEN "never"
    ELSE IF cmd = "version" THEN (IF pr.version THEN "zero" ELSE "nonzero")
    ELSE (IF pr.deps = "fail" THEN "nonzero" ELSE "zero")

\* an execSync that waits for the command without a limit
execSync_untimed(end, timeout) ==
    IF end = "never" THEN "blocked"
    ELSE IF end = "zero" THEN "returned" ELSE "threw"

\* execSync(command, { timeout }), main.js:303, 309, 326, 331: it returns the
\* output of a command that exits with status 0, throws on another status and
\* after timeout seconds kills the command and throws; with no timeout it
\* does not come back from a command that never ends
execSync(end, timeout) ==
    IF end = "never" THEN (IF timeout > 0 THEN "threw" ELSE "blocked")
    ELSE IF end = "zero" THEN "returned" ELSE "threw"

\* one pass of the two execSync probes, main.js:303-314 and 326-338:
\* "ok", "threw" (non-zero exit or timeout of either probe), "nomarker", or
\* "blocked" when an execSync did not come back
runProbes(pr) ==
    LET v == execSync(ends("version", pr), VersionTimeout)
        d == execSync(ends("deps", pr), DepsTimeout)
    IN IF v # "returned" THEN v
       ELSE IF d # "returned" THEN d
       ELSE IF pr.deps = "nomarker" THEN "nomarker"
       ELSE "ok"

\* the execSync commands one pass of the probes runs on an interpreter, in
\* order (main.js:303, 309 and 326, 331): the dependency probe is run only
\* once the version probe returned
probesRun(kind, pr) ==
    IF pr.version THEN <<<<kind, "--version">>, <<kind, "-c import">>>>
    ELSE <<<<kind, "--version">>>>

\* validation without the retry against the system interpreter
validate_noRetry(pythonExecutable, env) ==
    LET kind == IF pythonExecutable = python3 THEN "system" ELSE "bundled"
        pr == IF pythonExecutable = python3 THEN env.sysProbe ELSE env.probe
    IN [ok |-> runProbes(pr) = "ok", pythonExecutable |-> pythonExecutable,
        error |-> IF runProbes(pr) = "ok" THEN "none" ELSE "PythonUnavailable",
        probes |-> probesRun(kind, pr), blocked |-> FALSE]

\* validation that does not look for the marker in the dependency probe's output
validate_unmarked(pythonExecutable, env) ==
    LET kind == IF pythonExecutable = python3 THEN "system" ELSE "bundled"
        pr == IF pythonExecutable = python3 THEN env.sysProbe ELSE env.probe
    IN [ok |-> runProbes(pr) # "threw", pythonExecutable |-> pythonExecutable,
        error |-> IF runProbes(pr) # "threw" THEN "none" ELSE "PythonUnavailable",
        probes |-> probesRun(kind, pr), blocked |-> FALSE]

\* the validation that passed on pythonExecutable
Passed(pythonExecutable, probes) ==
    [ok |-> TRUE, pythonExecutable |-> pythonExecutable, error |-> "none",
     probes |-> probes, blocked |-> FALSE]

\* the validation that failed with error; blocked: an execSync did not come
\* back and the validation is still in it
Failed(error, probes, blocked) ==
    [ok |-> FALSE, pythonExecutable |-> python3, error |-> error,
     probes |-> probes, blocked |-> blocked]

\* main.js:297-353: the interpreter that passed, or the error returned, and
\* the probe commands that were run
validate(pythonExecutable, env) ==
    IF pythonExecutable = python3
    THEN LET probes == probesRun("system", env.sysProbe)
             system == runProbes(env.sysProbe)
         IN IF system = "ok" THEN Passed(python3, probes)
            ELSE IF system = "blocked" THEN Failed("none", probes, TRUE)
            ELSE Failed("PythonUnavailable", probes, FALSE)
    ELSE LET bundled == runProbes(env.probe)
             system == runProbes(env.sysProbe)
             first == probesRun("bundled", env.probe)
             probes == first \o probesRun("system", env.sysProbe)
         IN IF bundled = "ok" THEN Passed(pythonExecutable, first)
            ELSE IF bundled = "blocked" THEN Failed("none", first, TRUE)
            ELSE IF system = "ok" THEN Passed(python3, probes)
            ELSE IF system = "blocked" THEN Failed("none", probes, TRUE)
            ELSE IF system = "nomarker"
            THEN Failed("SystemModulesMissing", probes, FALSE)
            ELSE Failed("NeitherAvailable", probes, FALSE)

---------------------------------------------------------------------------
(* Process Supervisor.  One startProKeys call yields: result, the object   *)
(* it returns; child, what it put into the slot ("none", a "running"       *)
(* child, or a "failed" one: spawn returned a handle whose 'error' event   *)
(* is still to come, main.js:410-418); exe and args, what spawn was given; *)
(* log, the work on the world outside it did, in order; cand, the pair of  *)
(* interpreter and script its search selected, undefined when the call     *)
(* returned before the search; returned, the call came back to its caller. *)

\* return { success: false, error }, e.g. main.js:203, 291, 337
Failure(error) == [success |-> FALSE, error |-> error]

\* a start() call that returned result without reaching spawn
Returned(result, log) ==
    [threw |-> FALSE, result |-> result, child |-> "none", exe |-> <<>>,
     args |-> <<>>, log |-> log, cand |-> undefined, returned |-> TRUE]

\* a start() call that is still inside an execSync: nothing was returned
Blocked(log) ==
    [Returned([blocked |-> TRUE], log) EXCEPT !.returned = FALSE]

\* a start() call whose body threw error
Thrown(error, log) ==
    [threw |-> TRUE, error |-> error, log |-> log, cand |-> undefined]

\* systemPreferences.isTrustedAccessibilityClient(false), main.js:207
hasPermission_skipped(env) == TRUE
hasPermission(env) == env.perm

\* Number.prototype.toString, main.js:365: the decimal string of a number,
\* a different string for every number
toString(x) == <<"string", x>>

\* the arguments of a start() that reads the defaults instead of the store
spawnArgs_defaults(cfg, scriptPath) ==
    [threw |-> FALSE,
     args |-> <<scriptPath, "--trigger-key", defaultConfig.trigger_key,
                "--delay", toString(defaultConfig.delay)>>]

\* spawnArgs, main.js:362-374: config.delay.toString() throws a TypeError on a
\* Configuration without delay; a missing trigger_key is passed on as undefined
spawnArgs(cfg, scriptPath) ==
    IF "delay" \notin DOMAIN cfg THEN [threw |-> TRUE, error |-> "TypeError"]
    ELSE [threw |-> FALSE,
          args |-> <<scriptPath, "--trigger-key", get(cfg, "trigger_key"),
                     "--delay", toString(cfg.delay)>>
                   \o (IF "debug" \in DOMAIN cfg /\ cfg.debug = TRUE
                       THEN <<"--debug">> ELSE <<>>)]

\* the outer try of startProKeys from the not-found test on, main.js:288-435,
\* for the pair cand the search left in pythonExecutable and scriptPath
validateThenSpawn(cand, s, env) ==
    LET look == <<<<"fs", "existsSync">>>>
    IN IF cand.scriptPath = <<>>
       THEN Returned(Failure("RuntimeNotFound"), look)
       ELSE LET v == validate(cand.pythonExecutable, env)
                probed == look \o v.probes
            IN IF v.blocked THEN Blocked(probed)
               ELSE IF ~v.ok THEN Returned(Failure(v.error), probed)
               ELSE LET a == spawnArgs(getConfig(s), cand.scriptPath)
                        read == probed \o <<<<"store", "get">>>>
                        tried == read \o <<<<"child_process", "spawn">>>>
                    IN IF a.threw THEN Thrown(a.error, read)
                       ELSE IF env.spawn = "throw"
                       THEN Returned(Failure("SpawnFailed"), tried)
                       ELSE [threw |-> FALSE, result |-> [success |-> TRUE],
                             child |-> IF env.spawn = "ok" THEN "running"
                                       ELSE "failed",
                             exe |-> v.pythonExecutable, args |-> a.args,
                             log |-> tried, cand |-> undefined,
                             returned |-> TRUE]

\* a start() whose search depends on the persisted Configuration
tryBody_configured(s, env) ==
    LET cand == locate(env.isDev /\ s = <<>>, env.fs)
    IN [validateThenSpawn(cand, s, env) EXCEPT !.cand = cand]

\* the body of the outer try of startProKeys, main.js:216-435; cand is the
\* pair the search of main.js:219-286 selected
tryBody(s, env) ==
    LET cand == locate(env.isDev, env.fs)
    IN [validateThenSpawn(cand, s, env) EXCEPT !.cand = cand]

\* what a call that returned leaves behind
done(b) ==
    [result |-> b.result, child |-> b.child, exe |-> b.exe, args |-> b.args,
     log |-> b.log, cand |-> b.cand, returned |-> b.returned]

\* a start() call without the outer catch: the exception leaves the call
outerCatch_rethrow(b) ==
    IF b.threw
    THEN done([Returned([raised |-> b.error], b.log) EXCEPT !.cand = b.cand])
    ELSE done(b)

\* the outer catch of startProKeys, main.js:436-438
outerCatch(b) ==
    IF b.threw
    THEN done([Returned(Failure(b.error), b.log) EXCEPT !.cand = b.cand])
    ELSE done(b)

\* startProKeys, main.js:201-439, on the slot, the store and the environment
startProKeys(slot, s, env) ==
    IF slot # 0 THEN done(Returned(Failure("AlreadyRunning"), <<>>))
    ELSE IF ~hasPermission(env)
    THEN done(Returned([success |-> FALSE, error |-> "PermissionRequired",
                        needsPermission |-> TRUE], <<>>))
    ELSE outerCatch(tryBody(s, env))

\* the part of a call's outcome the supervisor's state depends on
outcome(r) == [result |-> r.result, child |-> r.child]

\* the environment of a call of which the model knows nothing
AnyEnv == [any |-> TRUE]

\* what a start() call can return, over every environment; the Configurations
\* the window and the tray persist have every field, so that the outcome does
\* not depend on the store
IdleOutcomes == {outcome(startProKeys(0, <<>>, e)) : e \in StartEnvs}
BusyOutcomes == {outcome(startProKeys(1, <<>>, e)) : e \in StartEnvs}
startOutcomes(slot) == IF slot # 0 THEN BusyOutcomes ELSE IdleOutcomes

\* the outcomes of a start() call made now
startCalls(slot, s, env) ==
    IF env = AnyEnv THEN startOutcomes(slot) ELSE {startProKeys(slot, s, env)}

\* the error a result carries, "none" for { success: true }
errorOf(result) == IF "error" \in DOMAIN result THEN result.error ELSE "none"

\* if (result.success), main.js:151, 483 and renderer.js:101
succeeded(result) == "success" \in DOMAIN result /\ result.success

\* stopProKeys without its test of the slot: it reports success on an empty slot
stopProKeys_unguarded(slot, ps) ==
    [success |-> TRUE, error |-> "none", slot |-> 0,
     procs |-> IF slot # 0 THEN [ps EXCEPT ![slot].sig = TRUE] ELSE ps,
     refresh |-> TRUE]

\* a stopProKeys that signals the child and holds the slot until it has exited
stopProKeys_waiting(slot, ps) ==
    IF slot # 0
    THEN [success |-> TRUE, error |-> "none", slot |-> slot,
          procs |-> [ps EXCEPT ![slot].sig = TRUE], refresh |-> TRUE]
    ELSE [success |-> FALSE, error |-> "NotRunning", slot |-> slot,
          procs |-> ps, refresh |-> FALSE]

\* stopProKeys, main.js:441-449: kill() marks the child signalled and the slot
\* is emptied at once; the tray is refreshed inside when it succeeds
stopProKeys(slot, ps) ==
    IF slot # 0
    THEN [success |-> TRUE, error |-> "none", slot |-> 0,
          procs |-> [ps EXCEPT ![slot].sig = TRUE], refresh |-> TRUE]
    ELSE [success |-> FALSE, error |-> "NotRunning", slot |-> slot,
          procs |-> ps, refresh |-> FALSE]

\* the slot and the children after a successful spawn, main.js:378
spawned(ps, child) == Append(ps, [st |-> child, sig |-> FALSE])

---------------------------------------------------------------------------
(* Initial state: first run (nothing persisted), the window loaded and its *)
(* init() (renderer.js:14-37) done: it read the defaults through           *)
(* get-config and the status through get-prokeys-status; createTray built  *)
(* the first tray menu.  No worker was spawned yet.                        *)

\* the handler that just ran neither called startProKeys / stopProKeys nor
\* handled a child's 'close'
NoCall == [op |-> "none"]

\* outside the run specification nothing is counted
Unwatched == [off |-> TRUE]

\* the counters after a handler took the slot from slot to slot2 and the
\* channel to the window from q to q2: idle counts the steps that emptied a
\* held slot (pythonProcess = null, main.js:403, 412, 445), stopped the
\* 'prokeys-stopped' messages sent (main.js:147, 406)
watch(w, slot, slot2, q, q2) ==
    IF w = Unwatched THEN w
    ELSE [w EXCEPT
            !.idle = w.idle + (IF slot # 0 /\ slot2 = 0 THEN 1 ELSE 0),
            !.stopped = w.stopped
                        + (IF Len(q2) > Len(q)
                              /\ q2[Len(q2)].type = "prokeys-stopped"
                           THEN 1 ELSE 0)]

Init ==
    /\ pythonProcess = 0
    /\ procs = <<>>
    /\ store = <<>>
    /\ tray = updateTrayMenu(<<>>, 0)
    /\ toMain = <<>>
    /\ toWin = <<>>
    /\ isRunning = FALSE
    /\ config = getConfig(<<>>)
    /\ last = NoCall
    /\ lastStarted = 0
    /\ swpm = MinWpm
    /\ sout = {}
    /\ senv = AnyEnv
    /\ seen = Unwatched

\* webContents.send(channel) to the window, or the reply of an invoke
send(q, msg) == Append(q, msg)

\* the channels the preload bridge registers a listener for (styles.css:383-391);
\* a message on any other channel reaches the window and is dropped there
listened == {"prokeys-output", "prokeys-error", "prokeys-stopped"}

\* the channels whose listener changes the window's state (renderer.js:78-85);
\* the listener of 'prokeys-output' only logs (renderer.js:74-76)
effective == listened \ {"prokeys-output"}

\* webContents.send(channel): only a message the window acts on is kept on the
\* channel, every other one is delivered without a trace
notify(q, channel) == IF channel \in effective THEN send(q, [type |-> channel]) ELSE q

\* the reply of start-prokeys / stop-prokeys: toggleProKeys acts on a successful
\* one (renderer.js:93-94, 101-102) and only logs a failed one
reply(q, type, success) ==
    IF success THEN send(q, [type |-> type, success |-> TRUE]) ELSE q

\* a 'close' handler that puts a fresh worker in the place of child p
restarted(ps, p) == [ps EXCEPT ![p] = [st |-> "running", sig |-> FALSE]]

\* the children left once the 'close' of child p was handled
closed(ps, p) == SubSeq(ps, 1, p - 1) \o SubSeq(ps, p + 1, Len(ps))
\* an index into procs after the same removal, 0 if it was p
renumbered(i, p) == IF i = p THEN 0 ELSE IF i > p THEN i - 1 ELSE i

---------------------------------------------------------------------------
(* Main process: IPC handlers.                                             *)

\* what one startProKeys call does to the supervisor's state
applyStart(r) ==
    /\ procs' = IF r.child # "none" THEN spawned(procs, r.child) ELSE procs
    /\ pythonProcess' = IF r.child # "none" THEN Len(procs') ELSE pythonProcess
    /\ last' = [op |-> "start", success |-> succeeded(r.result),
                error |-> errorOf(r.result), call |-> r]
    /\ lastStarted' = IF r.child # "none" THEN pythonProcess' ELSE lastStarted

\* what one stopProKeys call does to the supervisor's state; refreshed: the
\* call or its caller (main.js:143-144, 491-492) ran updateTrayMenu
applyStop(r) ==
    /\ procs' = r.procs
    /\ pythonProcess' = r.slot
    /\ last' = [op |-> "stop", success |-> r.success, error |-> r.error,
                refreshed |-> r.refresh \/ r.success]
    /\ lastStarted' = 0

\* ipcMain.handle('start-prokeys'), main.js:481-487
ipcStart ==
    /\ toMain # <<>> /\ Head(toMain).type = "start-prokeys"
    /\ Len(toWin) < MaxToWin
    /\ \E r \in startCalls(pythonProcess, store, senv) :
         /\ r.child # "none" => Len(procs) < MaxProcs
         /\ applyStart(r)
         /\ tray' = IF succeeded(r.result)
                    THEN updateTrayMenu(store, pythonProcess') ELSE tray
         /\ toWin' = reply(toWin, "start-reply", succeeded(r.result))
    /\ toMain' = Tail(toMain)
    /\ UNCHANGED <<store, isRunning, config, swpm, sout, senv, seen>>

\* ipcMain.handle('stop-prokeys'), main.js:489-495
ipcStop ==
    /\ toMain # <<>> /\ Head(toMain).type = "stop-prokeys"
    /\ Len(toWin) < MaxToWin
    /\ LET r == stopProKeys(pythonProcess, procs) IN
         /\ applyStop(r)
         /\ tray' = IF r.refresh \/ r.success
                    THEN updateTrayMenu(store, r.slot) ELSE tray
         /\ toWin' = reply(toWin, "stop-reply", r.success)
    /\ toMain' = Tail(toMain)
    /\ UNCHANGED <<store, isRunning, config, swpm, sout, senv>>
    /\ seen' = watch(seen, pythonProcess, pythonProcess', toWin, toWin')

\* what save-config persists: store.set('config', config), main.js:457
saveConfig(s, cfg) == <<cfg>>

\* ipcMain.handle('save-config'), main.js:456-460.  The window's saveConfig
\* (renderer.js:133-135) does nothing with the reply, which is left out
ipcSaveConfig ==
    /\ toMain # <<>> /\ Head(toMain).type = "save-config"
    /\ store' = saveConfig(store, Head(toMain).config)
    /\ tray' = updateTrayMenu(store', pythonProcess)
    /\ toWin' = toWin
    /\ toMain' = Tail(toMain)
    /\ last' = NoCall
    /\ UNCHANGED <<pythonProcess, procs, lastStarted, isRunning, config,
                   swpm, sout, senv, seen>>

(* Main process: tray menu.                                                *)

\* toggleProKeysFromTray, main.js:139-163
toggleProKeysFromTray ==
    /\ IF pythonProcess # 0
       THEN LET r == stopProKeys(pythonProcess, procs) IN
              /\ Len(toWin) < MaxToWin
              /\ applyStop(r)
              /\ tray' = IF r.refresh \/ r.success
                         THEN updateTrayMenu(store, r.slot) ELSE tray
              /\ toWin' = IF r.success THEN notify(toWin, "prokeys-stopped")
                          ELSE toWin
       ELSE \E r \in startCalls(pythonProcess, store, senv) :
              /\ r.child # "none" => Len(procs) < MaxProcs
              /\ applyStart(r)
              /\ tray' = IF succeeded(r.result)
                         THEN updateTrayMenu(store, pythonProcess') ELSE tray
              /\ toWin' = IF succeeded(r.result)
                          THEN notify(toWin, "prokeys-started") ELSE toWin
    /\ UNCHANGED <<store, toMain, isRunning, config, swpm, sout, senv>>
    /\ seen' = watch(seen, pythonProcess, pythonProcess', toWin, toWin')

\* the Configuration updateSpeedFromTray persists, main.js:167-171
traySpeedConfig(s, newSpeed) ==
    [getConfig(s) EXCEPT !.typing_speed_wpm = newSpeed,
                         !.delay = wpmToDelay(newSpeed)]

\* updateSpeedFromTray, main.js:165-183, for the preset clicked
updateSpeedFromTray ==
    /\ \E newSpeed \in trayClicks :
         store' = <<traySpeedConfig(store, newSpeed)>>
    /\ tray' = updateTrayMenu(store', pythonProcess)
    /\ toWin' = notify(toWin, "config-updated")
    /\ last' = NoCall
    /\ UNCHANGED <<pythonProcess, procs, lastStarted, toMain, isRunning,
                   config, swpm, sout, senv, seen>>

(* Main process: events of the spawned children.  The handlers are         *)
(* closures over the module-level pythonProcess, not over their child.     *)

\* pythonProcess.stdout.on('data'), main.js:385-391
onStdout ==
    /\ \E p \in DOMAIN procs : procs[p].st \in {"running", "exited"}
    /\ Len(toWin) < MaxToWin
    /\ toWin' = notify(toWin, "prokeys-output")
    /\ last' = NoCall
    /\ UNCHANGED <<pythonProcess, procs, lastStarted, store, tray, toMain,
                   isRunning, config, swpm, sout, senv, seen>>

\* pythonProcess.stderr.on('data'), main.js:393-399
onStderr ==
    /\ \E p \in DOMAIN procs : procs[p].st \in {"running", "exited"}
    /\ Len(toWin) < MaxToWin
    /\ toWin' = notify(toWin, "prokeys-error")
    /\ last' = NoCall
    /\ UNCHANGED <<pythonProcess, procs, lastStarted, store, tray, toMain,
                   isRunning, config, swpm, sout, senv, seen>>

\* a 'close' / 'error' handler that leaves the slot as it is
cleared_kept(slot, p) == slot

\* the slot after the 'close' / 'error' handler of child p ran, main.js:403, 412
cleared(slot, p) == 0

\* pythonProcess.on('close'), main.js:401-408
onClose ==
    /\ Len(toWin) < MaxToWin
    /\ \E p \in DOMAIN procs :
         /\ procs[p].st = "exited"
         /\ procs' = closed(procs, p)
         /\ pythonProcess' = cleared(pythonProcess, p)
         /\ lastStarted' = renumbered(lastStarted, p)
         /\ last' = [op |-> "close", held |-> pythonProcess = p,
                     sig |-> procs[p].sig]
    /\ tray' = updateTrayMenu(store, pythonProcess')
    /\ toWin' = notify(toWin, "prokeys-stopped")
    /\ UNCHANGED <<store, toMain, isRunning, config, swpm, sout, senv>>
    /\ seen' = watch(seen, pythonProcess, pythonProcess', toWin, toWin')

\* pythonProcess.on('error'), main.js:410-418: the spawn failed; Node emits
\* 'close' for the child afterwards
onError ==
    /\ Len(toWin) < MaxToWin
    /\ \E p \in DOMAIN procs :
         /\ procs[p].st = "failed"
         /\ procs' = [procs EXCEPT ![p].st = "exited"]
         /\ pythonProcess' = cleared(pythonProcess, p)
    /\ tray' = updateTrayMenu(store, pythonProcess')
    /\ toWin' = notify(toWin, "prokeys-error")
    /\ last' = NoCall
    /\ UNCHANGED <<lastStarted, store, toMain, isRunning, config, swpm, sout, senv>>
    /\ seen' = watch(seen, pythonProcess, pythonProcess', toWin, toWin')

\* a grace timer that declares the worker started whatever the slot holds
graced_started(slot, ps, s, t) == updateTrayMenu(s, 1)

\* the tray after the grace timer's callback, main.js:421-428: the menu is
\* rebuilt if the slot holds a child that has a pid (one whose spawn did not
\* fail), and is left as it is otherwise
graced(slot, ps, s, t) ==
    IF slot # 0 /\ ps[slot].st # "failed" THEN updateTrayMenu(s, slot) ELSE t

\* setTimeout(..., 1000) of startProKeys fires, main.js:421-428.  The timer is
\* followed in the run specification only: the tray always shows what
\* updateTrayMenu builds from the slot and the store, so that its callback
\* changes no variable of the other specifications
graceTimer ==
    /\ seen # Unwatched /\ seen.timer
    /\ tray' = graced(pythonProcess, procs, store, tray)
    /\ seen' = [seen EXCEPT !.timer = FALSE]
    /\ last' = [op |-> "timer"]
    /\ UNCHANGED <<pythonProcess, procs, lastStarted, store, toMain, toWin,
                   isRunning, config, swpm, sout, senv>>

(* Environment: a running child exits, killed by stop(), by the user or by *)
(* its own failure.                                                        *)
workerExit ==
    /\ \E p \in DOMAIN procs :
         /\ procs[p].st = "running"
         /\ procs' = [procs EXCEPT ![p].st = "exited"]
    /\ last' = NoCall
    /\ UNCHANGED <<pythonProcess, lastStarted, store, tray, toMain, toWin,
                   isRunning, config, swpm, sout, senv, seen>>

---------------------------------------------------------------------------
(* Renderer process.                                                       *)

\* toggleProKeys up to its await, renderer.js:88-99
toggleProKeys ==
    /\ Len(toMain) < MaxToMain
    /\ toMain' = Append(toMain, [type |-> IF isRunning THEN "stop-prokeys"
                                          ELSE "start-prokeys"])
    /\ last' = NoCall
    /\ UNCHANGED <<pythonProcess, procs, lastStarted, store, tray, toWin,
                   isRunning, config, swpm, sout, senv, seen>>

\* the window's Configuration after the slider or a preset button set wpm,
\* renderer.js:55-56 and 67-68
windowSpeedConfig(cfg, wpm) ==
    [cfg EXCEPT !.typing_speed_wpm = wpm, !.delay = rendererWpmToDelay(wpm)]

\* the slider's 'input' handler and the preset buttons' 'click' handler with
\* the saveConfig they call, renderer.js:50-71 and 133-135
setSpeed ==
    /\ Len(toMain) < MaxToMain
    /\ \E wpm \in windowSpeeds :
         /\ config' = windowSpeedConfig(config, wpm)
         /\ toMain' = Append(toMain, [type |-> "save-config", config |-> config'])
    /\ last' = NoCall
    /\ UNCHANGED <<pythonProcess, procs, lastStarted, store, tray, toWin,
                   isRunning, swpm, sout, senv, seen>>

\* isRunning after the window handled msg: the continuations of toggleProKeys
\* (renderer.js:93-94, 101-102) and the listeners of renderer.js:74-85 with
\* updateUI (renderer.js:117-118)
onMessage(msg, running) ==
    IF msg.type = "start-reply" THEN (IF msg.success THEN TRUE ELSE running)
    ELSE IF msg.type = "stop-reply" THEN (IF msg.success THEN FALSE ELSE running)
    ELSE IF msg.type = "prokeys-error" THEN FALSE
    ELSE IF msg.type = "prokeys-stopped" THEN FALSE
    ELSE running

\* the window takes the next message
receive ==
    /\ toWin # <<>>
    /\ isRunning' = onMessage(Head(toWin), isRunning)
    /\ toWin' = Tail(toWin)
    /\ last' = NoCall
    /\ UNCHANGED <<pythonProcess, procs, lastStarted, store, tray, toMain,
                   config, swpm, sout, senv, seen>>

---------------------------------------------------------------------------
Next ==
    \/ ipcStart
    \/ ipcStop
    \/ ipcSaveConfig
    \/ toggleProKeysFromTray
    \/ updateSpeedFromTray
    \/ onStdout
    \/ onStderr
    \/ onClose
    \/ onError
    \/ workerExit
    \/ toggleProKeys
    \/ setSpeed
    \/ receive

Spec == Init /\ [][Next]_vars

\* The event loops deliver what is pending: Node emits the 'close' of an exited
\* child and the window handles every message sent to it.  In the code nothing
\* disables the 'close' handler; here the bound on the channel does while the
\* channel is full, so strong fairness stands for the code's weak fairness.
FairSpec == Spec /\ SF_vars(onClose) /\ WF_vars(receive)

---------------------------------------------------------------------------
(* Speed-model specification: each copy of wpmToDelay applied to every wpm *)
(* of the slider's range.                                                  *)

SpeedInit ==
    /\ pythonProcess = 0
    /\ procs = <<>>
    /\ store = <<>>
    /\ tray = updateTrayMenu(<<>>, 0)
    /\ toMain = <<>>
    /\ toWin = <<>>
    /\ isRunning = FALSE
    /\ config = getConfig(<<>>)
    /\ last = NoCall
    /\ lastStarted = 0
    /\ swpm \in MinWpm..MaxWpm
    /\ sout = {}
    /\ senv = AnyEnv
    /\ seen = Unwatched

\* the tray path: updateSpeedFromTray calls the main-process copy, main.js:169
computeMain ==
    /\ \A r \in sout : r.caller # "main"
    /\ sout' = sout \cup {[caller |-> "main", delay |-> wpmToDelay(swpm)]}
    /\ UNCHANGED <<pythonProcess, procs, store, tray, toMain, toWin, isRunning,
                   config, last, lastStarted, swpm, senv, seen>>

\* the window path: the slider and the presets call the renderer's copy,
\* renderer.js:56, 68
computeRenderer ==
    /\ \A r \in sout : r.caller # "renderer"
    /\ sout' = sout \cup {[caller |-> "renderer",
                           delay |-> rendererWpmToDelay(swpm)]}
    /\ UNCHANGED <<pythonProcess, procs, store, tray, toMain, toWin, isRunning,
                   config, last, lastStarted, swpm, senv, seen>>

SpeedNext == computeMain \/ computeRenderer

SpeedSpec == SpeedInit /\ [][SpeedNext]_vars

\* the copy of wpmToDelay a caller runs
delayFor(caller, wpm) ==
    IF caller = "main" THEN wpmToDelay(wpm) ELSE rendererWpmToDelay(wpm)

---------------------------------------------------------------------------
(* Start specification: one start-prokeys request of the window handled in *)
(* every environment, on an empty and on a held slot, over the persisted   *)
(* Configurations save-config accepts (main.js:456-458 stores its argument *)
(* as it is, so a Configuration may lack delay or trigger_key).            *)

StartStores ==
    {<<>>,
     <<[typing_speed_wpm |-> 200, delay |-> rendererWpmToDelay(200),
        trigger_key |-> "ctrl+alt+v", debug |-> TRUE]>>,
     <<[typing_speed_wpm |-> 200, trigger_key |-> "ctrl+alt+v"]>>,
     <<[typing_speed_wpm |-> 200, delay |-> rendererWpmToDelay(200),
        debug |-> FALSE]>>}

StartInit ==
    /\ pythonProcess \in {0, 1}
    /\ procs = IF pythonProcess = 0 THEN <<>>
               ELSE <<[st |-> "running", sig |-> FALSE]>>
    /\ store \in StartStores
    /\ pythonProcess = 1 => store = <<>>
    /\ tray = updateTrayMenu(store, pythonProcess)
    /\ toMain = <<[type |-> "start-prokeys"]>>
    /\ toWin = <<>>
    /\ isRunning = FALSE
    /\ config = getConfig(store)
    /\ last = NoCall
    /\ lastStarted = pythonProcess
    /\ swpm = MinWpm
    /\ sout = {}
    /\ senv \in StartEnvs
    /\ seen = Unwatched

StartNext == ipcStart

StartSpec == StartInit /\ [][StartNext]_vars

---------------------------------------------------------------------------
(* Config specification: one save-config request handled, over persisted   *)
(* states and over arguments holding any subset of the Configuration's     *)
(* fields.                                                                 *)

Fields == {"typing_speed_wpm", "delay", "trigger_key", "debug"}

\* the value a save gives a field
newValue(f) ==
    CASE f = "typing_speed_wpm" -> 60
      [] f = "delay" -> rendererWpmToDelay(60)
      [] f = "trigger_key" -> "ctrl+alt+v"
      [] OTHER -> TRUE

\* the arguments of save-config: every subset of the fields
Partials == {[f \in F |-> newValue(f)] : F \in SUBSET Fields}

\* what is persisted before the save: nothing, or every field
ConfigStores ==
    {<<>>,
     <<[typing_speed_wpm |-> 120, delay |-> Rat(1, 100),
        trigger_key |-> "cmd+shift+v", debug |-> FALSE]>>}

ConfigInit ==
    /\ pythonProcess \in {0, 1}
    /\ procs = IF pythonProcess = 0 THEN <<>>
               ELSE <<[st |-> "running", sig |-> FALSE]>>
    /\ store \in ConfigStores
    /\ tray = updateTrayMenu(store, pythonProcess)
    /\ \E arg \in Partials : toMain = <<[type |-> "save-config", config |-> arg]>>
    /\ toWin = <<>>
    /\ isRunning = (pythonProcess # 0)
    /\ config = getConfig(store)
    /\ last = NoCall
    /\ lastStarted = pythonProcess
    /\ swpm = MinWpm
    /\ sout = {}
    /\ senv = AnyEnv
    /\ seen = Unwatched

ConfigNext == ipcSaveConfig

ConfigSpec == ConfigInit /\ [][ConfigNext]_vars

---------------------------------------------------------------------------
(* Run specification: the life of one worker.  The window started it and   *)
(* shows it running, and the grace timer of an earlier start is pending:   *)
(* that of the start that spawned this worker, or that of a start whose    *)
(* worker was stopped from the window, and is still running, before this   *)
(* one was started.  The accessibility permission was withdrawn since, so  *)
(* that no later start() spawns and every 'prokeys-error' on the channel   *)
(* is a forwarded stderr line.  The Running -> Idle transitions and the    *)
(* 'prokeys-stopped' notifications are counted.                            *)

RunEnv ==
    [perm |-> FALSE, isDev |-> TRUE, fs |-> {}, spawn |-> "ok",
     probe |-> [version |-> TRUE, deps |-> "ok"],
     sysProbe |-> [version |-> TRUE, deps |-> "ok"]]

RunInit ==
    /\ procs \in {<<[st |-> "running", sig |-> FALSE]>>,
                  <<[st |-> "running", sig |-> TRUE],
                    [st |-> "running", sig |-> FALSE]>>}
    /\ pythonProcess = Len(procs)
    /\ store = <<>>
    /\ tray = updateTrayMenu(<<>>, pythonProcess)
    /\ toMain = <<>>
    /\ toWin = <<>>
    /\ isRunning = TRUE
    /\ config = getConfig(<<>>)
    /\ last = NoCall
    /\ lastStarted = pythonProcess
    /\ swpm = MinWpm
    /\ sout = {}
    /\ senv = RunEnv
    /\ seen = [idle |-> 0, stopped |-> 0, timer |-> TRUE]

RunNext ==
    \/ ipcStart
    \/ ipcStop
    \/ toggleProKeysFromTray
    \/ onStdout
    \/ onStderr
    \/ onClose
    \/ workerExit
    \/ toggleProKeys
    \/ receive
    \/ graceTimer

RunSpec == RunInit /\ [][RunNext]_vars

---------------------------------------------------------------------------
(* Quit specification: the application with its quit.  After 'before-quit' *)
(* the application exits and no handler runs any more.                     *)

\* app.on('before-quit'), main.js:529-534: the child in the slot is killed, the
\* slot is left as it is
beforeQuit ==
    /\ last.op # "quit"
    /\ procs' = IF pythonProcess # 0
                THEN [procs EXCEPT ![pythonProcess].sig = TRUE] ELSE procs
    /\ last' = [op |-> "quit"]
    /\ UNCHANGED <<pythonProcess, lastStarted, store, tray, toMain, toWin,
                   isRunning, config, swpm, sout, senv, seen>>

QuitNext ==
    \/ last.op # "quit" /\ Next
    \/ beforeQuit

QuitSpec == Init /\ [][QuitNext]_vars

---------------------------------------------------------------------------
(* Properties.                                                             *)

\* the children that are alive and were not sent a termination signal
liveWorkers == {p \in DOMAIN procs : procs[p].st = "running" /\ ~procs[p].sig}

\* no call or message is in flight between the two processes
quiescent == toMain = <<>> /\ toWin = <<>>

\* C1: single-slot discipline: at most one spawned worker is alive at any time,
\* after any interleaving of start, stop and the children's 'close' / 'error'
\* events.  A worker that stop() already signalled is not counted, which is the
\* reading most favourable to the code.
C1_SingleLiveWorker == Cardinality(liveWorkers) <= 1

\* C2: a start() call made while the worker of the latest successful start is
\* still alive and no stop() was called since fails (the claim names the
\* failure: AlreadyRunning) and spawns nothing: the two calls make one spawn.
C2_SecondStartRejected ==
    [][(last'.op = "start" /\ lastStarted # 0
          /\ procs[lastStarted].st = "running")
       => (~last'.success /\ procs' = procs)]_vars

\* C3: stop() on an empty slot returns NotRunning and changes nothing: the slot
\* stays empty, no child is signalled, updateTrayMenu is not run and the tray is
\* as it was, and nothing (no 'prokeys-stopped') is sent to the window.
C3_StopOnIdle ==
    [][(last'.op = "stop" /\ pythonProcess = 0)
       => (~last'.success /\ last'.error = "NotRunning"
             /\ pythonProcess' = 0 /\ procs' = procs
             /\ ~last'.refreshed /\ tray' = tray
             /\ toWin' = toWin /\ store' = store)]_vars

\* C3 witness: a stop-prokeys request was just answered NotRunning on an empty slot
C3_Witness ==
    last.op = "stop" /\ last.error = "NotRunning" /\ pythonProcess = 0

\* C4: whenever nothing is in flight, the window's isRunning flag, the tray's
\* status label and get-prokeys-status agree.
C4_SurfacesAgree ==
    quiescent => (isRunning = tray.status /\ tray.status = (pythonProcess # 0))

\* C5: a save that changes the persisted Configuration while a worker holds the
\* slot leaves the slot and the children untouched, and once it completed the
\* tray's speed label and the window's copy equal the persisted Configuration.
C5_SaveWhileRunning ==
    [][(pythonProcess # 0 /\ store' # store)
       => (pythonProcess' = pythonProcess /\ procs' = procs
             /\ tray'.speed = getConfig(store').typing_speed_wpm
             /\ config' = getConfig(store'))]_vars

\* C6: the 'close' of a child that exited while it held the slot and was never
\* signalled by stop() empties the slot (one Running -> Idle transition), shows
\* Stopped in the tray and sends exactly one 'prokeys-stopped' to the window; and
\* once the child in the slot has exited, the slot is eventually emptied.
C6_ExternalExitObserved ==
    /\ [][\A p \in DOMAIN procs :
            (Len(procs') < Len(procs) /\ procs' = closed(procs, p)
               /\ pythonProcess = p /\ ~procs[p].sig)
            => (pythonProcess' = 0 /\ ~tray'.status
                  /\ toWin' = Append(toWin, [type |-> "prokeys-stopped"]))]_vars
    /\ ((pythonProcess # 0 /\ procs[pythonProcess].st = "exited")
          ~> (pythonProcess = 0))

\* C6 witness: the 'close' of an unsignalled child that held the slot was just
\* handled and its notification is the latest message to the window
C6_Witness ==
    /\ last.op = "close" /\ last.held /\ ~last.sig
    /\ pythonProcess = 0
    /\ toWin # <<>> /\ toWin[Len(toWin)].type = "prokeys-stopped"

\* C7: the Configuration get-config returns (the persisted one, or the defaults
\* on first run) has delay = delayFor(typing_speed_wpm); either copy of
\* wpmToDelay is accepted as the speed model.
C7_DelayDerivable ==
    LET c == getConfig(store) IN
      \/ c.delay = wpmToDelay(c.typing_speed_wpm)
      \/ c.delay = rendererWpmToDelay(c.typing_speed_wpm)

\* C8: for every caller's copy, the delay computed for a wpm of [9,999] is
\* positive and greater than the delay of every larger wpm of [9,999].
C8_StrictlyDecreasing ==
    \A r \in sout :
      /\ RatPos(r.delay)
      /\ \A w2 \in MinWpm..MaxWpm :
           swpm < w2 => RatLt(delayFor(r.caller, w2), r.delay)

\* C9: for every wpm of [9,999] the tray path (main-process wpmToDelay) and the
\* window path (renderer wpmToDelay) compute the same delay.
C9_OneImplementation == \A a, b \in sout : a.delay = b.delay

\* C10: the typing_speed_wpm of the Configuration get-config returns is an
\* integer of [9,999] after any sequence of speed changes from window and tray.
C10_WpmInRange == getConfig(store).typing_speed_wpm \in MinWpm..MaxWpm

---------------------------------------------------------------------------
(* Properties of one start() call, under StartSpec.                        *)

\* the base directories of the mode that hold both the bundled interpreter and
\* the script
completeBases(env) ==
    {b \in Bases :
       /\ b \in (IF env.isDev THEN {"__dirname"}
                 ELSE {"resourcesPath", "resourcesPath/.."})
       /\ <<b, "venv_portable/bin/python">> \in env.fs
       /\ <<b, "prokeys.py">> \in env.fs}

\* the script at the mode-appropriate path
modeScript(env) ==
    <<IF env.isDev THEN "__dirname" ELSE "resourcesPath", "prokeys.py">>

\* both probes of an interpreter pass
passes(pr) == pr.version /\ pr.deps = "ok"

\* the persisted Configuration has what spawnArgs reads, and spawn does not
\* throw
spawnable(s, env) == "delay" \in DOMAIN getConfig(s) /\ env.spawn # "throw"

\* the number of probe passes the log shows for an interpreter: each pass
\* begins with its version probe
passesOn(log, kind) ==
    Cardinality({i \in DOMAIN log : log[i] = <<kind, "--version">>})

\* C11: start() on an empty slot without the accessibility permission returns
\* PermissionRequired with needsPermission = true, having run no existsSync, no
\* probe and no spawn, and leaves the slot empty.
C11_PermissionFirst ==
    [][(last'.op = "start" /\ pythonProcess = 0 /\ ~senv.perm)
       => (/\ last'.call.result = [success |-> FALSE,
                                   error |-> "PermissionRequired",
                                   needsPermission |-> TRUE]
           /\ last'.call.log = <<>>
           /\ last'.call.child = "none"
           /\ pythonProcess' = 0 /\ procs' = procs)]_vars

\* C11 witness: a call without permission was just refused in an environment
\* where the runtime was there to be found and validated
C11_Witness ==
    /\ last.op = "start" /\ last.error = "PermissionRequired"
    /\ ~senv.perm /\ pythonProcess = 0
    /\ completeBases(senv) # {} /\ passes(senv.probe)

\* C12: with no base directory holding both files, the script at the
\* mode-appropriate path and a system interpreter that passes both probes,
\* start() on an empty slot (permission granted, spawn not throwing) succeeds:
\* spawn is given python3 and that script, and the slot holds the new child.
C12_SystemFallback ==
    [][(/\ last'.op = "start" /\ pythonProcess = 0 /\ senv.perm
        /\ completeBases(senv) = {} /\ modeScript(senv) \in senv.fs
        /\ passes(senv.sysProbe) /\ spawnable(store, senv))
       => (/\ last'.call.result = [success |-> TRUE]
           /\ last'.call.exe = python3
           /\ last'.call.args[1] = modeScript(senv)
           /\ pythonProcess' # 0
           /\ procs' = Append(procs, [st |-> last'.call.child, sig |-> FALSE])
           /\ last'.call.child # "none")]_vars

\* C12 witness: a start just succeeded on the system interpreter with no
\* complete bundled runtime anywhere
C12_Witness ==
    /\ last.op = "start" /\ last.success
    /\ completeBases(senv) = {} /\ last.call.exe = python3
    /\ pythonProcess # 0

\* C13: with a bundled runtime located whose dependency probe fails and a
\* system interpreter that passes both probes, start() succeeds, spawn is given
\* the system interpreter, and the result reports origin "system".
C13_ReportsSystemOrigin ==
    [][(/\ last'.op = "start" /\ pythonProcess = 0 /\ senv.perm
        /\ completeBases(senv) # {}
        /\ senv.probe.version /\ senv.probe.deps # "ok"
        /\ passes(senv.sysProbe) /\ spawnable(store, senv))
       => (/\ last'.success
           /\ last'.call.exe = python3
           /\ "origin" \in DOMAIN last'.call.result
           /\ last'.call.result.origin = "system")]_vars

\* C14: in one start() call each interpreter is probed at most once; a failed
\* pass on a bundled interpreter is followed by exactly one pass on the system
\* interpreter and a passed one by none; a failed pass on the system
\* interpreter ends the call: failure returned, nothing spawned, slot empty,
\* and that pass is the last work the call did.
C14_OneRetryThenTerminal ==
    [][(last'.op = "start" /\ pythonProcess = 0 /\ senv.perm)
       => LET c == last'.call
              bundled == passesOn(c.log, "bundled")
              system == passesOn(c.log, "system")
          IN /\ bundled <= 1 /\ system <= 1
             /\ (bundled = 1 /\ ~passes(senv.probe)) => system = 1
             /\ (bundled = 1 /\ passes(senv.probe)) => system = 0
             /\ (system = 1 /\ ~passes(senv.sysProbe))
                  => (/\ ~last'.success /\ c.child = "none"
                      /\ pythonProcess' = 0 /\ procs' = procs
                      /\ c.log[Len(c.log)][1] = "system")]_vars

\* C14 witness: a call whose bundled interpreter failed retried the system
\* interpreter, which failed as well, and returned the failure
C14_Witness ==
    /\ last.op = "start" /\ ~last.success
    /\ passesOn(last.call.log, "bundled") = 1
    /\ passesOn(last.call.log, "system") = 1
    /\ pythonProcess = 0

---------------------------------------------------------------------------
(* Properties of the Config Store and of stop().                           *)

\* C16: a save-config on a persisted Configuration merges: a field the argument
\* lacks keeps its persisted value, a field it has takes the argument's value.
C16_SaveMerges ==
    [][(/\ toMain # <<>> /\ Head(toMain).type = "save-config"
        /\ toMain' = Tail(toMain) /\ store # <<>>)
       => LET arg == Head(toMain).config
              old == store[1]
              new == getConfig(store')
          IN /\ \A f \in DOMAIN old \ DOMAIN arg :
                  f \in DOMAIN new /\ new[f] = old[f]
             /\ \A f \in DOMAIN arg : f \in DOMAIN new /\ new[f] = arg[f]]_vars

\* C17: get-config returns the persisted Configuration when there is one, and
\* on first run 120 WPM, the delay of 120 WPM (by either copy of wpmToDelay), a
\* trigger key and debug = false.
C17_GetConfigDefaults ==
    /\ store # <<>> => getConfig(store) = store[1]
    /\ store = <<>> =>
         LET c == getConfig(store)
         IN /\ c.typing_speed_wpm = 120
            /\ "trigger_key" \in DOMAIN c
            /\ c.delay = wpmToDelay(120) \/ c.delay = rendererWpmToDelay(120)
            /\ "debug" \in DOMAIN c /\ c.debug = FALSE

\* C18: stop() on a held slot signals the child, empties the slot and returns
\* success in that same step, whether or not the child has exited: the child's
\* state is as it was, and get-prokeys-status and the tray show stopped.
C18_StopImmediate ==
    [][(last'.op = "stop" /\ pythonProcess # 0)
       => (/\ last'.success
           /\ pythonProcess' = 0
           /\ procs' = [procs EXCEPT ![pythonProcess].sig = TRUE]
           /\ ~tray'.status)]_vars

\* C18 witness: stop() just returned success and emptied the slot while the
\* child it signalled is still running
C18_Witness ==
    /\ last.op = "stop" /\ last.success /\ pythonProcess = 0
    /\ \E p \in DOMAIN procs : procs[p].st = "running" /\ procs[p].sig

\* the children that have not exited
alive(ps) == {p \in DOMAIN ps : ps[p].st # "exited"}

C20_EmptySlotNoLiveWorker ==
    pythonProcess = 0
      => \A p \in DOMAIN procs : procs[p].st = "running" => procs[p].sig

---------------------------------------------------------------------------
(* Properties of the children's handlers and of what reaches the window.   *)

\* C21: the step of a 'close' handler and the step of an 'error' handler leave
\* the slot empty, build the tray menu from the emptied slot (it shows Stopped)
\* and append their message ('prokeys-stopped', 'prokeys-error') to the channel
\* to the window: in the state that holds the message get-prokeys-status
\* answers not running.
C21_SlotEmptiedFirst ==
    [][/\ last'.op = "close"
            => (/\ pythonProcess' = 0
                /\ tray' = updateTrayMenu(store, 0) /\ ~tray'.status
                /\ toWin' = Append(toWin, [type |-> "prokeys-stopped"]))
       /\ (\E p \in DOMAIN procs :
             /\ Len(procs') = Len(procs)
             /\ procs[p].st = "failed" /\ procs'[p].st = "exited")
            => (/\ pythonProcess' = 0
                /\ tray' = updateTrayMenu(store, 0) /\ ~tray'.status
                /\ toWin' = Append(toWin, [type |-> "prokeys-error"]))]_vars

\* C21 witness: the 'close' of the worker that held the slot was just handled:
\* its 'prokeys-stopped' is on the channel, not yet delivered to a window that
\* shows running, and the slot is empty and the tray shows Stopped
C21_Witness ==
    /\ last.op = "close" /\ last.held
    /\ toWin = <<[type |-> "prokeys-stopped"]>> /\ isRunning
    /\ pythonProcess = 0 /\ ~tray.status

\* C22: while a running worker holds the slot, a stderr line is forwarded as one
\* 'prokeys-error' message and changes neither the slot, nor the children (no
\* signal is sent), nor the tray; and the window that shows Running still shows
\* Running once it handled that message while the slot is still held.
C22_StderrKeepsRunning ==
    [][/\ (/\ pythonProcess # 0 /\ procs[pythonProcess].st = "running"
           /\ toWin' = Append(toWin, [type |-> "prokeys-error"]))
            => (pythonProcess' = pythonProcess /\ procs' = procs
                  /\ tray' = tray)
       /\ (/\ toWin # <<>> /\ Head(toWin).type = "prokeys-error"
           /\ toWin' = Tail(toWin)
           /\ pythonProcess # 0 /\ procs[pythonProcess].st = "running"
           /\ isRunning)
            => isRunning']_vars

\* C23: whenever nothing is in flight, the window's copies are those of the
\* supervisor and of the store: its running flag is get-prokeys-status and its
\* Configuration is the one get-config returns, whichever surface, window or
\* tray, made the latest start, stop or speed change.
C23_WindowNeverStale ==
    quiescent => (/\ isRunning = (pythonProcess # 0)
                  /\ config = getConfig(store))

\* C24: over the life of a worker, the 'prokeys-stopped' notifications sent to
\* the window never outnumber the Running -> Idle transitions of the slot: a
\* transition, whether made by stop() from the window, by stop() from the tray
\* or by the worker's exit, is notified at most once.
C24_OneStoppedPerTransition == seen.stopped <= seen.idle

---------------------------------------------------------------------------
(* Properties of the search, the validation and the arguments of one       *)
(* start() call, under StartSpec.                                          *)

\* the probe outcomes of the interpreter a log entry names
probed(env, kind) == IF kind = "system" THEN env.sysProbe ELSE env.probe

\* C25: a start() call that spawned a worker ran, in this order, the search of
\* the files, a version probe and a dependency probe of the interpreter it
\* handed to spawn, the read of the store and spawn; both probes of that
\* interpreter passed; the script handed to spawn is the one the search
\* selected and it exists, and so does a bundled interpreter handed to spawn.
\* Whenever a call reached spawn, the probes run last passed.
C25_SpawnAfterValidation ==
    [][(last'.op = "start")
       => LET c == last'.call
              n == Len(c.log)
              kind == IF c.exe = python3 THEN "system" ELSE "bundled"
          IN /\ \A i \in DOMAIN c.log :
                  c.log[i] = <<"child_process", "spawn">>
                    => (/\ i = n /\ i >= 5
                        /\ c.log[1] = <<"fs", "existsSync">>
                        /\ c.log[i - 1] = <<"store", "get">>
                        /\ c.log[i - 2][2] = "-c import"
                        /\ c.log[i - 3] = <<c.log[i - 2][1], "--version">>
                        /\ passes(probed(senv, c.log[i - 2][1])))
             /\ c.child # "none"
                  => (/\ n >= 5 /\ c.log[n] = <<"child_process", "spawn">>
                      /\ c.log[n - 2] = <<kind, "-c import">>
                      /\ passes(probed(senv, kind))
                      /\ c.cand.scriptPath # <<>>
                      /\ c.args[1] = c.cand.scriptPath
                      /\ c.args[1] \in senv.fs
                      /\ c.exe # python3
                           => (c.exe = c.cand.pythonExecutable
                                 /\ c.exe \in senv.fs))]_vars

\* C25 witness: a call whose bundled interpreter failed its probes has just
\* spawned the worker on the system interpreter, which passed them
C25_Witness ==
    /\ last.op = "start" /\ last.success /\ pythonProcess # 0
    /\ ~passes(senv.probe) /\ passesOn(last.call.log, "bundled") = 1
    /\ last.call.exe = python3

\* the complete base the search meets first
firstComplete(env) ==
    IF "__dirname" \in completeBases(env) THEN "__dirname"
    ELSE IF "resourcesPath" \in completeBases(env) THEN "resourcesPath"
    ELSE "resourcesPath/.."

\* C26: the search of a start() call selects the bundled interpreter and the
\* script of the first base, in the order of the mode (dev: the project
\* directory; packaged: the resources directory, then its parent), that holds
\* both files; with no such base it selects no bundled interpreter; a bundled
\* pair never takes a file from a base that lacks the other.
C26_FirstCompleteBase ==
    [][(last'.op = "start" /\ pythonProcess = 0 /\ senv.perm)
       => LET cand == last'.call.cand
          IN /\ completeBases(senv) # {}
                  => cand = [pythonExecutable |->
                               <<firstComplete(senv), "venv_portable/bin/python">>,
                             scriptPath |-> <<firstComplete(senv), "prokeys.py">>]
             /\ completeBases(senv) = {} => cand.pythonExecutable = python3
             /\ cand.pythonExecutable # python3
                  => (/\ cand.pythonExecutable[1] \in completeBases(senv)
                      /\ cand.scriptPath[1] = cand.pythonExecutable[1])]_vars

\* C26 witness: packaged, both base directories hold both files, and the call
\* selected the pair of the resources directory
C26_Witness ==
    /\ last.op = "start" /\ last.call.log # <<>> /\ ~senv.isDev
    /\ completeBases(senv) = {"resourcesPath", "resourcesPath/.."}
    /\ last.call.cand.scriptPath = <<"resourcesPath", "prokeys.py">>

\* the environments that have the files, the mode and the permission of env
\* and any of four outcomes of the two interpreters' probes
sameFiles(env) ==
    {[env EXCEPT !.probe = p, !.sysProbe = q] :
       p, q \in {[version |-> TRUE, deps |-> "ok"],
                 [version |-> FALSE, deps |-> "ok"]}}

C28_RuntimeNotFound ==
    [][(last'.op = "start")
       => LET c == last'.call
              nowhere == completeBases(senv) = {} /\ modeScript(senv) \notin senv.fs
          IN /\ (pythonProcess = 0 /\ senv.perm /\ nowhere)
                  => (/\ c.result = Failure("RuntimeNotFound")
                      /\ c.log = <<<<"fs", "existsSync">>>>
                      /\ c.child = "none"
                      /\ pythonProcess' = 0 /\ procs' = procs)
             /\ last'.error = "RuntimeNotFound"
                  => (nowhere /\ pythonProcess = 0 /\ senv.perm)]_vars

\* C28 witness: packaged, the script lies in the parent of the resources
\* directory without an interpreter beside it, and the call returned
\* RuntimeNotFound
C28_Witness ==
    /\ last.op = "start" /\ last.error = "RuntimeNotFound"
    /\ ~senv.isDev /\ <<"resourcesPath/..", "prokeys.py">> \in senv.fs
    /\ pythonProcess = 0

\* the system interpreter's probes failing for the other cause: a version
\* probe that fails instead of a dependency probe that fails, and conversely
otherCause(env) ==
    [env EXCEPT !.sysProbe = IF env.sysProbe.version
                             THEN [version |-> FALSE, deps |-> "ok"]
                             ELSE [version |-> TRUE, deps |-> "fail"]]

\* C29: a start() call that failed on the probes of the system interpreter
\* (located directly, or retried after the bundled one failed) returns an error
\* different from the one the same call returns when the system interpreter
\* fails for the other cause: version probe failed, or version probe passed and
\* dependency probe failed.
C29_CausesDistinguished ==
    [][(/\ last'.op = "start" /\ pythonProcess = 0 /\ senv.perm
        /\ passesOn(last'.call.log, "system") = 1 /\ ~passes(senv.sysProbe))
       => last'.error
            # errorOf(startProKeys(0, store, otherCause(senv)).result)]_vars

\* C30: the arguments a start() call hands to spawn are the selected script,
\* '--trigger-key' and the trigger_key, '--delay' and the delay as a string, of
\* the Configuration persisted when the call is made (the defaults when none
\* is), followed by '--debug' exactly when its debug is true.
C30_ArgsFromStore ==
    [][(last'.op = "start" /\ last'.call.child # "none")
       => LET cfg == IF store = <<>> THEN defaultConfig ELSE store[1]
              debug == "debug" \in DOMAIN cfg /\ cfg.debug = TRUE
              a == last'.call.args
          IN /\ Len(a) = IF debug THEN 6 ELSE 5
             /\ a[1] = last'.call.cand.scriptPath
             /\ a[2] = "--trigger-key" /\ a[3] = get(cfg, "trigger_key")
             /\ a[4] = "--delay" /\ a[5] = toString(cfg.delay)
             /\ debug => a[6] = "--debug"]_vars

\* C30 witness: a worker was just spawned from a persisted Configuration with
\* debug on and a delay other than the default one, and was given '--debug'
C30_Witness ==
    /\ last.op = "start" /\ last.success /\ pythonProcess # 0
    /\ store # <<>> /\ store[1].delay # defaultConfig.delay
    /\ Len(last.call.args) = 6 /\ last.call.args[6] = "--debug"

---------------------------------------------------------------------------
(* Properties of termination, of the spawn, of the tray, of quitting, of   *)
(* the reference delay and of the grace timer.                             *)

\* the probe commands a log shows
probesIn(log) == {i \in DOMAIN log : log[i][1] \in {"bundled", "system"}}

\* C31: every start() call comes back to its caller, whatever the probes do, a
\* probe that would never end included: it ran at most four probes, and it
\* leaves a held slot as it was and an empty slot either empty, with nothing
\* spawned, or holding the worker it spawned.
C31_StartTerminates ==
    [][(last'.op = "start")
       => LET c == last'.call
          IN /\ c.returned
             /\ Cardinality(probesIn(c.log)) <= 4
             /\ pythonProcess # 0
                  => (pythonProcess' = pythonProcess /\ procs' = procs)
             /\ pythonProcess = 0
                  => \/ pythonProcess' = 0 /\ procs' = procs
                     \/ /\ c.child # "none"
                        /\ procs' = Append(procs, [st |-> c.child, sig |-> FALSE])
                        /\ pythonProcess' = Len(procs')]_vars

\* C31 witness: the dependency probe of the bundled interpreter stalled, then
\* the version probe of the system interpreter stalled, and the call returned
\* a failure with the slot empty
C31_Witness ==
    /\ last.op = "start" /\ last.call.returned /\ ~last.success
    /\ get(senv.probe, "stalls") = "deps"
    /\ get(senv.sysProbe, "stalls") = "version"
    /\ Cardinality(probesIn(last.call.log)) = 3
    /\ pythonProcess = 0

\* C32: a start() call that returns success leaves in the slot the child it
\* spawned; and a call whose spawn failed, whether spawn threw or its child
\* reports the failure by an 'error' event, returns the SpawnFailed failure
\* with nothing in the slot.
C32_SpawnFailureReported ==
    [][(last'.op = "start" /\ last'.call.log # <<>>
          /\ last'.call.log[Len(last'.call.log)] = <<"child_process", "spawn">>)
       => LET c == last'.call
          IN /\ last'.success
                  => (/\ c.child # "none"
                      /\ procs' = Append(procs, [st |-> c.child, sig |-> FALSE])
                      /\ pythonProcess' = Len(procs'))
             /\ senv.spawn # "ok"
                  => (/\ c.result = Failure("SpawnFailed")
                      /\ pythonProcess' = 0 /\ procs' = procs)]_vars

C34_QuitSignalsWorkers ==
    last.op = "quit"
      => \A p \in DOMAIN procs : procs[p].st = "running" => procs[p].sig

\* the multiplier a caller's copy applies in the band 120 <= wpm < 200: its
\* delay at 199 WPM over the base delay 60 / (199 * 5)
bandMultiplier(caller) == RatMul(delayFor(caller, 199), Rat(199 * 5, 60))

\* C35: the delay every caller's copy computes for 120 WPM is the base delay
\* 0.1 s times that copy's multiplier of the band 120 <= wpm < 200, not the one
\* of the band 60 <= wpm < 120, and it is one value for every caller.
C35_ReferenceAt120 ==
    swpm = 120
      => /\ \A r \in sout :
              r.delay = RatMul(Rat(1, 10), bandMultiplier(r.caller))
         /\ \A a, b \in sout : a.delay = b.delay

\* C36: the step in which the grace timer fires changes neither the slot, nor
\* the children, nor the store, and sends nothing to the window; it leaves the
\* tray as it was when the slot is empty and shows in it what updateTrayMenu
\* builds from the slot and the store when the slot is held, whatever stop(), a
\* worker's exit or a later start did since the timer was armed.
C36_GraceTimerReadsOnly ==
    [][(last'.op = "timer")
       => (/\ pythonProcess' = pythonProcess /\ procs' = procs
           /\ store' = store /\ toWin' = toWin /\ toMain' = toMain
           /\ isRunning' = isRunning /\ config' = config
           /\ pythonProcess = 0 => tray' = tray
           /\ pythonProcess # 0
                => tray' = updateTrayMenu(store, pythonProcess))]_vars

\* C36 witness: the timer just fired after the tray's stop had emptied the slot
\* and while the 'prokeys-stopped' of that stop is still on its way
C36_Witness ==
    /\ last.op = "timer" /\ pythonProcess = 0 /\ seen.idle = 1
    /\ toWin = <<[type |-> "prokeys-stopped"]>> /\ ~tray.status

===========================================================================
